---- MODULE Spec2Model ----
(***************************************************************************)
(* URL shortener backend: the Express handlers (POST /shorturls,           *)
(* GET /:shortcode, DELETE /shorturls/:shortcode, the cron sweep), the     *)
(* UrlService methods they call and the Url / Click Mongoose models.       *)
(*                                                                         *)
(* Every `await` on a store operation is one step of a request, so         *)
(* requests interleave exactly where the event loop lets them.  Time is    *)
(* counted in minutes (validity is given in minutes and multiplied by      *)
(* 60 * 1000 in createShortUrl).  Strings whose content matters are        *)
(* sequences of one-character strings (shortcodes) or of tokens (URLs).    *)
(* Mongoose's bookkeeping fields createdAt / updatedAt, and the tags and   *)
(* description fields that no handler inspects, are not part of the state. *)
(* A Click keeps, of the request, the client IP, the location resolved     *)
(* from it (country and city, the two parts the handlers read), the words  *)
(* of the User-Agent header with the device parsed from them, and the      *)
(* header's length in characters; referer and campaign are left out.       *)
(*                                                                         *)
(* storeUp says whether MongoDB can be reached.  While it cannot, a store  *)
(* operation waits (Mongoose buffers it) and either runs once the store is *)
(* back or fails with a timeout error.                                     *)
(***************************************************************************)
EXTENDS Integers, Sequences, FiniteSets, TLC

VARIABLES dbConnected, storeUp, now, urls, clicks, creates, visits, deletes, reads,
          results, localStorage, submits

vars == <<dbConnected, storeUp, now, urls, clicks, creates, visits, deletes, reads,
          results, localStorage, submits>>

(***************************************************************************)
(* Bounds                                                                  *)
(***************************************************************************)
NumCreates == 2
NumVisits == 3
NumDeletes == 1
NumReads == 2
MaxTime == 2
MaxRequests == 3
MaxAttempts == 3

Creators == 1..NumCreates
Visitors == 1..NumVisits
Deleters == 1..NumDeletes
Readers == 1..NumReads

(***************************************************************************)
(* Program constants                                                       *)
(***************************************************************************)
DefaultValidity == 30
MaxValidity == 525600
MinShortcodeLen == 3
MaxShortcodeLen == 20
MaxUserAgentLen == 1000

NullDate == 0 - 1

(***************************************************************************)
(* Strings                                                                 *)
(***************************************************************************)
AlnumChars ==
  {"a","b","c","d","e","f","g","h","i","j","k","l","m","n","o","p","q","r",
   "s","t","u","v","w","x","y","z","A","B","C","D","E","F","G","H","I","J",
   "K","L","M","N","O","P","Q","R","S","T","U","V","W","X","Y","Z","0","1",
   "2","3","4","5","6","7","8","9"}

Whitespace == {" "}

Repeat(ch, n) == [i \in 1..n |-> ch]

\* /^[a-zA-Z0-9]+$/.test(shortcode)
AlnumOnly(s) == Len(s) >= 1 /\ \A i \in 1..Len(s) : s[i] \in AlnumChars

\* the `length` of a value that has none (a number): undefined
Undefined == 0 - 1

\* shortcode.length < 3 || shortcode.length > 20: both comparisons are false
\* when length is undefined
ShortcodeLengthBad(length) ==
  length # Undefined /\ (length < MinShortcodeLen \/ length > MaxShortcodeLen)

\* ^[A-Za-z0-9]{3,20}$
MatchesShortcodePattern(s) ==
  /\ Len(s) >= MinShortcodeLen
  /\ Len(s) <= MaxShortcodeLen
  /\ \A i \in 1..Len(s) : s[i] \in AlnumChars

\* String.prototype.trim, the setter of `trim: true`
RECURSIVE TrimLeft(_)
TrimLeft(s) == IF s # <<>> /\ Head(s) \in Whitespace THEN TrimLeft(Tail(s)) ELSE s

RECURSIVE TrimRight(_)
TrimRight(s) ==
  IF s # <<>> /\ s[Len(s)] \in Whitespace
  THEN TrimRight(SubSeq(s, 1, Len(s) - 1))
  ELSE s

Trim(s) == TrimRight(TrimLeft(s))

\* JavaScript truthiness of a string-or-undefined value: undefined and the
\* empty string are both falsy and both are the empty sequence here.
Truthy(s) == s # <<>>

(***************************************************************************)
(* URLs are token sequences: <<"https", "://", "example.com">>.            *)
(***************************************************************************)
SchemeSep == "://"

ToLowerCase(t) ==
  CASE t = "HTTP" -> "http"
    [] t = "HTTPS" -> "https"
    [] t = "FTP" -> "ftp"
    [] t = "Mozilla" -> "mozilla"
    [] t = "iPhone" -> "iphone"
    [] t = "iPad" -> "ipad"
    [] t = "Android" -> "android"
    [] t = "Mobile" -> "mobile"
    [] t = "Safari" -> "safari"
    [] t = "Chrome" -> "chrome"
    [] t = "Firefox" -> "firefox"
    [] t = "Windows" -> "windows"
    [] t = "Mac" -> "mac"
    [] t = "Linux" -> "linux"
    [] t = "Edge" -> "edge"
    [] t = "Opera" -> "opera"
    [] t = "Opera Mini" -> "opera mini"
    [] t = "Tablet" -> "tablet"
    [] t = "IEMobile" -> "iemobile"
    [] t = "BlackBerry" -> "blackberry"
    [] t = "iPod" -> "ipod"
    [] OTHER -> t

Hosts == {"example.com", "a.io"}

\* isValidUrl without the protocol list: any scheme is let through
isValidUrl_AnyProtocol(u) ==
  /\ Len(u) = 3
  /\ u[2] = SchemeSep
  /\ u[3] \in Hosts

\* validator.isURL(string, {protocols: ['http','https'], require_protocol:
\* true, require_valid_protocol: true, ...}): the text before "://" is
\* lower-cased and must be one of the protocols; a string without "://" is
\* rejected; what follows must be a host.
isValidUrl(u) ==
  /\ Len(u) = 3
  /\ u[2] = SchemeSep
  /\ ToLowerCase(u[1]) \in {"http", "https"}
  /\ u[3] \in Hosts

\* urlSchema.originalUrl validator: /^https?:\/\/.+/ (case-sensitive)
UrlPatternTest(u) ==
  /\ Len(u) >= 3
  /\ u[1] \in {"http", "https"}
  /\ u[2] = SchemeSep
  /\ u[3] # ""

\* the claim's reading of "begins with http:// or https://"
BeginsWithHttp(u) == Len(u) >= 2 /\ u[1] \in {"http", "https"} /\ u[2] = SchemeSep

(***************************************************************************)
(* Documents                                                               *)
(***************************************************************************)
NoUrl ==
  [_id |-> 0, shortcode |-> <<>>, originalUrl |-> <<>>, expiresAt |-> NullDate,
   isActive |-> FALSE, totalClicks |-> 0, lastClickAt |-> NullDate]

\* new Url({originalUrl, expiresAt, shortcode, ...}) with the schema defaults
NewUrl(originalUrl, expiresAt, shortcode) ==
  [_id |-> 0, shortcode |-> Trim(shortcode), originalUrl |-> originalUrl,
   expiresAt |-> expiresAt, isActive |-> TRUE, totalClicks |-> 0,
   lastClickAt |-> NullDate]

\* The _id (an ObjectId) Mongoose gives a new document: unique per document;
\* here the number of the request that constructs it.
UrlId(c) == c

ClickId(v) == v

\* Mongoose validation of a Url document.  It is the first pre('save') hook,
\* so it runs before the schema's own pre('save') hook: a document built
\* without a shortcode fails `required` before that hook could generate one.
ValidateUrl(doc) ==
  /\ Truthy(doc.shortcode)
  /\ Len(doc.shortcode) >= MinShortcodeLen
  /\ Len(doc.shortcode) <= MaxShortcodeLen
  /\ Truthy(doc.originalUrl)
  /\ UrlPatternTest(doc.originalUrl)
  /\ doc.expiresAt # NullDate

\* a collection without the unique index: every insert is let in
UniqueIndexAllows_Any(shortcode) == TRUE

\* the unique index on urls.shortcode
UniqueIndexAllows(shortcode) == \A u \in urls : u.shortcode # shortcode

\* Url.findOne({shortcode}) / Url.findOne({shortcode, isActive: true})
FindOne(shortcode, activeOnly) ==
  LET hits == {u \in urls : u.shortcode = shortcode /\ (activeOnly => u.isActive)}
  IN IF hits = {} THEN NoUrl ELSE CHOOSE u \in hits : TRUE

\* isExpired that never reports expiry
isExpired_Never(url) == FALSE

\* urlSchema.virtual('isExpired')
isExpired(url) == now > url.expiresAt

\* updateOne that replaces the document instead of setting one field: the
\* counters fall back to their defaults
DeactivateById_Replace(id) ==
  {IF u._id = id
   THEN [u EXCEPT !.isActive = FALSE, !.totalClicks = 0, !.lastClickAt = NullDate]
   ELSE u : u \in urls}

\* Url.updateOne({_id}, {isActive: false})
DeactivateById(id) ==
  {IF u._id = id THEN [u EXCEPT !.isActive = FALSE] ELSE u : u \in urls}

\* a sweep that flips the flag of the expired links instead of clearing it
cleanupExpired_Toggle ==
  {IF u.expiresAt < now THEN [u EXCEPT !.isActive = ~u.isActive] ELSE u
   : u \in urls}

\* a sweep that deletes the expired links
cleanupExpired_Remove == {u \in urls : ~(u.expiresAt < now)}

\* urlSchema.statics.cleanupExpired: updateMany({expiresAt: {$lt: now}}, ...)
cleanupExpired ==
  {IF u.expiresAt < now THEN [u EXCEPT !.isActive = FALSE] ELSE u : u \in urls}

\* cleanupExpiredUrls: result.modifiedCount, the number of documents the
\* updateMany matched and changed
modifiedCount == Cardinality({u \in urls : u.expiresAt < now /\ u.isActive})

\* urlSchema.methods.incrementClicks: the in-memory copy is bumped and saved;
\* save() writes the modified paths with $set to the document with this _id.
incrementClicks(url) ==
  {IF u._id = url._id
   THEN [u EXCEPT !.totalClicks = url.totalClicks + 1, !.lastClickAt = now]
   ELSE u : u \in urls}

\* Click document validation: userAgent maxlength
ValidateClick(uaLen) == uaLen <= MaxUserAgentLen

(***************************************************************************)
(* Request data of a click.  A User-Agent header is the sequence of its    *)
(* words, <<"Mozilla", "iPhone", "Mac", "Mobile", "Safari">>, none of      *)
(* which is part of another, together with its length in characters; an    *)
(* absent header is the empty sequence with length 0.                      *)
(***************************************************************************)
LocalIp == "127.0.0.1"
PublicIp == "8.8.8.8"
PrivateIp == "10.0.0.1"
Ipv6LocalIp == "::1"
\* the IPv4 loopback as a dual-stack socket reports it
MappedLocalIp == "::ffff:127.0.0.1"

NoGeo == [country |-> "", city |-> ""]

\* geoip.lookup(ip): the bundled database knows public addresses only
GeoLookup(ip) ==
  IF ip = PublicIp THEN [country |-> "US", city |-> "Mountain View"] ELSE NoGeo

\* the words a lower-cased word of a header contains as substrings
WordsIn(t) ==
  CASE t = "iemobile" -> {"iemobile", "mobile"}
    [] t = "opera mini" -> {"opera mini", "opera"}
    [] OTHER -> {t}

\* ua.includes(word) on the lower-cased header
Includes(userAgent, word) ==
  \E i \in 1..Len(userAgent) : word \in WordsIn(ToLowerCase(userAgent[i]))

\* parseUserAgent with the two device tests in the other order
parseUserAgent_TabletFirst(userAgent) ==
  LET type ==
        IF \E w \in {"tablet", "ipad"} : Includes(userAgent, w)
        THEN "tablet"
        ELSE IF \E w \in {"mobile", "android", "iphone", "ipod", "blackberry",
                           "iemobile", "opera mini"} : Includes(userAgent, w)
        THEN "mobile"
        ELSE "desktop"
      browser ==
        IF Includes(userAgent, "chrome") THEN "Chrome"
        ELSE IF Includes(userAgent, "firefox") THEN "Firefox"
        ELSE IF Includes(userAgent, "safari") THEN "Safari"
        ELSE IF Includes(userAgent, "edge") THEN "Edge"
        ELSE IF Includes(userAgent, "opera") THEN "Opera"
        ELSE "Unknown"
  IN [type |-> type, browser |-> browser, os |-> "Unknown",
      isMobile |-> type = "mobile"]

\* UrlService.parseUserAgent
parseUserAgent(userAgent) ==
  LET type ==
        IF \E w \in {"mobile", "android", "iphone", "ipod", "blackberry",
                      "iemobile", "opera mini"} : Includes(userAgent, w)
        THEN "mobile"
        ELSE IF \E w \in {"tablet", "ipad"} : Includes(userAgent, w)
        THEN "tablet"
        ELSE "desktop"
      browser ==
        IF Includes(userAgent, "chrome") THEN "Chrome"
        ELSE IF Includes(userAgent, "firefox") THEN "Firefox"
        ELSE IF Includes(userAgent, "safari") THEN "Safari"
        ELSE IF Includes(userAgent, "edge") THEN "Edge"
        ELSE IF Includes(userAgent, "opera") THEN "Opera"
        ELSE "Unknown"
      os ==
        IF Includes(userAgent, "windows") THEN "Windows"
        ELSE IF Includes(userAgent, "mac") THEN "macOS"
        ELSE IF Includes(userAgent, "linux") THEN "Linux"
        ELSE IF Includes(userAgent, "android") THEN "Android"
        ELSE IF \/ Includes(userAgent, "ios")
                \/ Includes(userAgent, "iphone")
                \/ Includes(userAgent, "ipad")
        THEN "iOS"
        ELSE "Unknown"
  IN [type |-> type, browser |-> browser, os |-> os, isMobile |-> type = "mobile"]

\* what the redirect handler gathers from the request
RequestData(ip, userAgent, uaLen) ==
  [ip |-> ip, userAgent |-> userAgent, uaLen |-> uaLen]

NoRequestData == RequestData("", <<>>, 0)

\* UrlService.parseRequestData: the location is looked up unless the address
\* is absent or local; the header is passed on as it came, 'Unknown' (7
\* characters) standing in for an absent one
parseRequestData(shortcode, requestData) ==
  [shortcode |-> shortcode,
   ip |-> requestData.ip,
   userAgent |-> IF requestData.userAgent = <<>>
                 THEN <<"Unknown">>
                 ELSE requestData.userAgent,
   uaLen |-> IF requestData.userAgent = <<>> THEN 7 ELSE requestData.uaLen,
   location |->
     IF requestData.ip # "" /\ requestData.ip # LocalIp /\ requestData.ip # Ipv6LocalIp
     THEN GeoLookup(requestData.ip)
     ELSE [country |-> "Local", city |-> "Development"],
   device |-> parseUserAgent(requestData.userAgent)]

\* new Click(clickData): timestamp defaults to Date.now
NewClick(id, clickData) ==
  [_id |-> id, shortcode |-> clickData.shortcode, timestamp |-> now,
   ip |-> clickData.ip, userAgent |-> clickData.userAgent,
   uaLen |-> clickData.uaLen, location |-> clickData.location,
   device |-> clickData.device]

(***************************************************************************)
(* Requests                                                                *)
(***************************************************************************)
NoRes == [status |-> 0, code |-> "", shortcode |-> <<>>]

Res(status, code) == [status |-> status, code |-> code, shortcode |-> <<>>]

NoBody ==
  [url |-> <<>>, hasValidity |-> FALSE, validity |-> 0, shortcode |-> <<>>,
   shortcodeIsNumber |-> FALSE]

\* the forms of the URLShortener component, one create request each
FormIds == Creators

\* an invocation of handleSubmit: its form, the `results` of the render it
\* was created in (the closure), and the errors it set
IdleSubmit == [pc |-> "idle", form |-> NoBody, results |-> <<>>, errors |-> {}]

IdleCreate ==
  [pc |-> "idle", body |-> NoBody, receivedAt |-> NullDate,
   expiresAt |-> NullDate, docId |-> 0, err |-> "", res |-> NoRes,
   shortcode |-> <<>>, attempts |-> 0]

IdleVisit ==
  [pc |-> "idle", shortcode |-> <<>>, requestData |-> NoRequestData,
   url |-> NoUrl, clickId |-> 0, err |-> "", res |-> NoRes]

IdleDelete ==
  [pc |-> "idle", shortcode |-> <<>>, url |-> NoUrl, res |-> NoRes]

\* what getUrlStats returns, before anything is read
NoStats ==
  [originalUrl |-> <<>>, shortcode |-> <<>>, expiresAt |-> NullDate,
   isActive |-> FALSE, isExpired |-> FALSE, totalClicks |-> 0,
   lastClickAt |-> NullDate,
   analytics |-> [recentClicks |-> <<>>, locationStats |-> <<>>,
                  deviceStats |-> <<>>]]

\* the JSON body of GET /shorturls/:shortcode, before it is built
NoResponse ==
  [originalUrl |-> <<>>, expiresAt |-> NullDate, totalClicks |-> 0,
   clickDetails |-> <<>>,
   analytics |-> [locationStats |-> <<>>, deviceStats |-> <<>>]]

\* a GET /shorturls (kind "list") or GET /shorturls/:shortcode (kind "stats")
\* request; list is result.urls, the body of the list response
IdleRead ==
  [pc |-> "idle", kind |-> "", shortcode |-> <<>>, includeInactive |-> TRUE,
   url |-> NoUrl, stats |-> NoStats, list |-> {}, response |-> NoResponse,
   res |-> NoRes]

Init ==
  /\ dbConnected = FALSE
  /\ storeUp = TRUE
  /\ now = 0
  /\ urls = {}
  /\ clicks = {}
  /\ creates = [c \in Creators |-> IdleCreate]
  /\ visits = [v \in Visitors |-> IdleVisit]
  /\ deletes = [d \in Deleters |-> IdleDelete]
  /\ reads = [r \in Readers |-> IdleRead]
  /\ results = <<>>
  /\ localStorage = <<>>
  /\ submits = [f \in FormIds |-> IdleSubmit]

\* requests received so far
Started ==
  Cardinality({c \in Creators : creates[c].pc # "idle"})
  + Cardinality({v \in Visitors : visits[v].pc # "idle"})
  + Cardinality({d \in Deleters : deletes[d].pc # "idle"})
  + Cardinality({r \in Readers : reads[r].pc # "idle"})

\* a request slot may take the next request
CanStart(slots, i) ==
  /\ Started < MaxRequests
  /\ slots[i].pc = "idle"
  /\ \A j \in DOMAIN slots : j < i => slots[j].pc # "idle"

\* connectDB().then(conn => { dbConnected = true })
Connect ==
  /\ ~dbConnected
  /\ storeUp
  /\ dbConnected' = TRUE
  /\ UNCHANGED <<now, urls, clicks, creates, visits, deletes, storeUp, reads, results, localStorage, submits>>

\* the clock
Tick ==
  /\ now < MaxTime
  /\ now' = now + 1
  /\ UNCHANGED <<dbConnected, urls, clicks, creates, visits, deletes, storeUp, reads, results, localStorage, submits>>

\* cron.schedule('*/5 * * * *'): the sweep; an error of the store is caught
\* and logged
Cron ==
  /\ urls' = IF dbConnected /\ storeUp THEN cleanupExpired ELSE urls
  /\ UNCHANGED <<dbConnected, now, clicks, creates, visits, deletes, storeUp, reads, results, localStorage, submits>>

(***************************************************************************)
(* POST /shorturls                                                         *)
(***************************************************************************)
\* const validityMinutes = validity || 30: undefined and 0 are falsy
validityMinutes(body) ==
  IF body.hasValidity /\ body.validity # 0 THEN body.validity ELSE DefaultValidity

\* validityMinutes <= 0 || validityMinutes > 525600
ValidityRejected(vm) == vm <= 0 \/ vm > MaxValidity

\* createShortUrl: new Date(Date.now() + validity * 60 * 1000), in minutes
ExpiresAt(validity) == now + validity

\* shortcode.length: the number of characters of a string, undefined for a
\* number
LengthOf(body) ==
  IF body.shortcodeIsNumber THEN Undefined ELSE Len(body.shortcode)

\* The handler's gate and validations, in the order of the code; "" when the
\* request reaches UrlService.createShortUrl.
CreateRejection(body) ==
  IF ~dbConnected THEN Res(503, "DATABASE_UNAVAILABLE")
  ELSE IF ~Truthy(body.url) THEN Res(400, "MISSING_URL")
  ELSE IF ~isValidUrl(body.url) THEN Res(400, "INVALID_URL")
  ELSE IF Truthy(body.shortcode) /\ ~AlnumOnly(body.shortcode)
    THEN Res(400, "INVALID_SHORTCODE")
  ELSE IF Truthy(body.shortcode) /\ ShortcodeLengthBad(LengthOf(body))
    THEN Res(400, "INVALID_SHORTCODE_LENGTH")
  ELSE IF ValidityRejected(validityMinutes(body)) THEN Res(400, "INVALID_VALIDITY")
  ELSE NoRes

\* the catch block without the 'already exists' branch
CreateCatch_Always500(message) == Res(500, "INTERNAL_ERROR")

\* the catch block of the handler: 409 when the message includes
\* 'already exists', otherwise 500
CreateCatch(message) ==
  IF message = "Custom shortcode already exists"
  THEN Res(409, "SHORTCODE_EXISTS")
  ELSE Res(500, "INTERNAL_ERROR")

\* new Url(...) followed by urlDoc.save() up to the insert: validation
\* decides whether the insert is issued.
CreateAfterPrecheck(c, cr) ==
  LET doc == NewUrl(cr.body.url, cr.expiresAt, cr.shortcode)
  IN IF ValidateUrl(doc)
     THEN [cr EXCEPT !.pc = "save"]
     ELSE [cr EXCEPT !.pc = "done", !.err = "ValidationError",
                     !.res = CreateCatch("Url validation failed")]

\* The handler up to its first store operation.
PostShorturls(c, body) ==
  /\ CanStart(creates, c)
  /\ LET rej == CreateRejection(body)
         cr == [creates[c] EXCEPT !.body = body, !.receivedAt = now,
                                  !.expiresAt = ExpiresAt(validityMinutes(body)),
                                  !.shortcode = body.shortcode]
     IN creates' =
          [creates EXCEPT ![c] =
             IF rej # NoRes
             THEN [creates[c] EXCEPT !.pc = "done", !.body = body,
                                     !.receivedAt = now, !.res = rej]
             ELSE IF Truthy(body.shortcode)
             THEN [cr EXCEPT !.pc = "findOne"]
             ELSE CreateAfterPrecheck(c, cr)]
  /\ UNCHANGED <<dbConnected, now, urls, clicks, visits, deletes, storeUp, reads, results, localStorage, submits>>

\* createShortUrl: const existingUrl = await Url.findOne({shortcode, isActive: true})
CreateFindOne(c) ==
  /\ creates[c].pc = "findOne"
  /\ storeUp
  /\ LET cr == creates[c]
         existingUrl == FindOne(cr.body.shortcode, TRUE)
     IN creates' =
          [creates EXCEPT ![c] =
             IF existingUrl # NoUrl
             THEN [cr EXCEPT !.pc = "done", !.err = "exists",
                             !.res = CreateCatch("Custom shortcode already exists")]
             ELSE CreateAfterPrecheck(c, cr)]
  /\ UNCHANGED <<dbConnected, now, urls, clicks, visits, deletes, storeUp, reads, results, localStorage, submits>>

\* createShortUrl: await urlDoc.save(), the insert against the unique index
CreateSave(c) ==
  /\ creates[c].pc = "save"
  /\ storeUp
  /\ LET cr == creates[c]
         doc == [NewUrl(cr.body.url, cr.expiresAt, cr.shortcode)
                   EXCEPT !._id = UrlId(c)]
     IN IF UniqueIndexAllows(doc.shortcode)
        THEN /\ urls' = urls \cup {doc}
             /\ creates' =
                  [creates EXCEPT ![c] =
                     [cr EXCEPT !.pc = "done", !.docId = doc._id,
                                !.res = [status |-> 201, code |-> "",
                                         shortcode |-> doc.shortcode]]]
        ELSE /\ UNCHANGED urls
             /\ creates' =
                  [creates EXCEPT ![c] =
                     [cr EXCEPT !.pc = "done", !.err = "E11000",
                                !.res = CreateCatch("E11000 duplicate key error")]]
  /\ UNCHANGED <<dbConnected, now, clicks, visits, deletes, storeUp, reads, results, localStorage, submits>>

(***************************************************************************)
(* The pre('save') hook of the Url schema.  Under save() the hook runs     *)
(* after validation, which has already refused a document without a       *)
(* shortcode; the body of the hook is reached by a save that skips         *)
(* validation, urlDoc.save({ validateBeforeSave: false }).                 *)
(***************************************************************************)
\* the length of a generated shortcode
GeneratedLen == 7

\* generateRandomShortcode(): seven characters drawn from the 62; here two
\* of the 62^7 values
GeneratedCodes == {Repeat("A", GeneratedLen), Repeat("b", GeneratedLen)}

\* Url.exists({ shortcode })
Exists(shortcode) == \E u \in urls : u.shortcode = shortcode

\* new Url({originalUrl, expiresAt}) saved without validation: the hook
\* finds this.isNew && !this.shortcode and enters its loop
PreSave(c, body) ==
  /\ CanStart(creates, c)
  /\ ~Truthy(body.shortcode)
  /\ creates' =
       [creates EXCEPT ![c] =
          [creates[c] EXCEPT !.pc = "generate", !.body = body,
                             !.receivedAt = now,
                             !.expiresAt = ExpiresAt(validityMinutes(body))]]
  /\ UNCHANGED <<dbConnected, now, urls, clicks, visits, deletes, storeUp, reads, results, localStorage, submits>>

\* One turn of `while (exists)`: a candidate is drawn and looked up; the
\* loop ends only when the candidate is free.  The loop has no limit of its
\* own: MaxAttempts bounds the turns that are explored.
PreSaveGenerate(c) ==
  /\ creates[c].pc = "generate"
  /\ storeUp
  /\ creates[c].attempts < MaxAttempts
  /\ \E shortcode \in GeneratedCodes :
       creates' =
         [creates EXCEPT ![c] =
            IF Exists(shortcode)
            THEN [creates[c] EXCEPT !.attempts = @ + 1]
            ELSE [creates[c] EXCEPT !.attempts = @ + 1,
                                    !.shortcode = shortcode, !.pc = "save"]]
  /\ UNCHANGED <<dbConnected, now, urls, clicks, visits, deletes, storeUp, reads, results, localStorage, submits>>

(***************************************************************************)
(* GET /:shortcode and UrlService.recordClick                              *)
(***************************************************************************)
\* The handler up to the first store operation of recordClick.
GetShortcode(v, shortcode, requestData) ==
  /\ CanStart(visits, v)
  /\ visits' =
       [visits EXCEPT ![v] =
          IF ~dbConnected
          THEN [visits[v] EXCEPT !.pc = "done", !.shortcode = shortcode,
                                 !.requestData = requestData,
                                 !.res = Res(503, "DATABASE_UNAVAILABLE")]
          ELSE [visits[v] EXCEPT !.pc = "find", !.shortcode = shortcode,
                                 !.requestData = requestData]]
  /\ UNCHANGED <<dbConnected, now, urls, clicks, creates, deletes, storeUp, reads, results, localStorage, submits>>

\* getUrlByShortcode: findOne({shortcode, isActive: true}), then the
\* isExpired test on the document found; null ends recordClick with null and
\* the handler with 404.
RecordClickFind(v) ==
  /\ visits[v].pc = "find"
  /\ storeUp
  /\ LET url == FindOne(visits[v].shortcode, TRUE)
     IN visits' =
          [visits EXCEPT ![v] =
             IF url = NoUrl
             THEN [visits[v] EXCEPT !.pc = "done", !.res = Res(404, "NOT_FOUND")]
             ELSE IF isExpired(url)
             THEN [visits[v] EXCEPT !.pc = "expire", !.url = url]
             ELSE [visits[v] EXCEPT !.pc = "saveClick", !.url = url]]
  /\ UNCHANGED <<dbConnected, now, urls, clicks, creates, deletes, storeUp, reads, results, localStorage, submits>>

\* getUrlByShortcode: await Url.updateOne({_id: url._id}, {isActive: false});
\* return null
RecordClickExpire(v) ==
  /\ visits[v].pc = "expire"
  /\ storeUp
  /\ urls' = DeactivateById(visits[v].url._id)
  /\ visits' = [visits EXCEPT ![v] =
                  [visits[v] EXCEPT !.pc = "done",
                                    !.res = Res(404, "NOT_FOUND")]]
  /\ UNCHANGED <<dbConnected, now, clicks, creates, deletes, storeUp, reads, results, localStorage, submits>>

\* a failed click.save() that is swallowed: recordClick goes on to
\* incrementClicks
ClickSaveFailed_Swallowed(vr) == [vr EXCEPT !.pc = "increment"]

\* What recordClick does once click.save() has failed: the error reaches the
\* handler's catch, which answers 500.
ClickSaveFailed(vr) ==
  [vr EXCEPT !.pc = "done", !.err = "clickSave", !.res = Res(500, "INTERNAL_ERROR")]

\* recordClick: const clickData = this.parseRequestData(shortcode,
\* requestData); const click = new Click(clickData); await click.save().
\* The save fails on validation (userAgent longer than maxlength; nothing
\* shortens the header on the way) or when the store refuses the write.
RecordClickSave(v) ==
  /\ visits[v].pc = "saveClick"
  /\ storeUp
  /\ \E storeOk \in BOOLEAN :
       IF storeOk /\ ValidateClick(visits[v].requestData.uaLen)
       THEN /\ clicks' = clicks \cup
                 {NewClick(ClickId(v),
                           parseRequestData(visits[v].shortcode,
                                            visits[v].requestData))}
            /\ visits' = [visits EXCEPT ![v] =
                            [visits[v] EXCEPT !.pc = "increment", !.clickId = ClickId(v)]]
       ELSE /\ visits' =
                 [visits EXCEPT ![v] =
                    [ClickSaveFailed(visits[v]) EXCEPT
                       !.err = IF ValidateClick(visits[v].requestData.uaLen)
                               THEN @
                               ELSE "ValidationError"]]
            /\ UNCHANGED clicks
  /\ UNCHANGED <<dbConnected, now, urls, creates, deletes, storeUp, reads, results, localStorage, submits>>

\* recordClick: await url.incrementClicks(); return url.originalUrl; the
\* handler then redirects.  When the document is gone the save matches
\* nothing: Mongoose raises DocumentNotFoundError or, in older versions,
\* reports success.  The store may also refuse the write.
RecordClickIncrement(v) ==
  /\ visits[v].pc = "increment"
  /\ storeUp
  /\ LET vr == visits[v]
         stored == \E u \in urls : u._id = vr.url._id
     IN \E storeOk \in BOOLEAN, silent \in BOOLEAN :
          IF storeOk /\ (stored \/ silent)
          THEN /\ urls' = incrementClicks(vr.url)
               /\ visits' = [visits EXCEPT ![v] =
                               [vr EXCEPT !.pc = "done", !.res = Res(302, "")]]
          ELSE /\ UNCHANGED urls
               /\ visits' = [visits EXCEPT ![v] =
                               [vr EXCEPT !.pc = "done", !.err = "urlSave",
                                          !.res = Res(500, "INTERNAL_ERROR")]]
  /\ UNCHANGED <<dbConnected, now, clicks, creates, deletes, storeUp, reads, results, localStorage, submits>>

(***************************************************************************)
(* DELETE /shorturls/:shortcode and UrlService.deleteUrl                   *)
(***************************************************************************)
DeleteShorturl(d, shortcode) ==
  /\ CanStart(deletes, d)
  /\ deletes' =
       [deletes EXCEPT ![d] =
          IF ~dbConnected
          THEN [deletes[d] EXCEPT !.pc = "done", !.shortcode = shortcode,
                                  !.res = Res(503, "DATABASE_UNAVAILABLE")]
          ELSE [deletes[d] EXCEPT !.pc = "find", !.shortcode = shortcode]]
  /\ UNCHANGED <<dbConnected, now, urls, clicks, creates, visits, storeUp, reads, results, localStorage, submits>>

\* const existingUrl = await UrlService.getUrlByShortcode(shortcode)
DeleteFind(d) ==
  /\ deletes[d].pc = "find"
  /\ storeUp
  /\ LET url == FindOne(deletes[d].shortcode, TRUE)
     IN deletes' =
          [deletes EXCEPT ![d] =
             IF url = NoUrl
             THEN [deletes[d] EXCEPT !.pc = "done", !.res = Res(404, "NOT_FOUND")]
             ELSE IF isExpired(url)
             THEN [deletes[d] EXCEPT !.pc = "expire", !.url = url]
             ELSE [deletes[d] EXCEPT !.pc = "deleteClicks", !.url = url]]
  /\ UNCHANGED <<dbConnected, now, urls, clicks, creates, visits, storeUp, reads, results, localStorage, submits>>

DeleteExpire(d) ==
  /\ deletes[d].pc = "expire"
  /\ storeUp
  /\ urls' = DeactivateById(deletes[d].url._id)
  /\ deletes' = [deletes EXCEPT ![d] =
                   [deletes[d] EXCEPT !.pc = "done",
                                      !.res = Res(404, "NOT_FOUND")]]
  /\ UNCHANGED <<dbConnected, now, clicks, creates, visits, storeUp, reads, results, localStorage, submits>>

\* deleteUrl: await Click.deleteMany({shortcode})
DeleteClicks(d) ==
  /\ deletes[d].pc = "deleteClicks"
  /\ storeUp
  /\ clicks' = {k \in clicks : k.shortcode # deletes[d].shortcode}
  /\ deletes' = [deletes EXCEPT ![d] = [deletes[d] EXCEPT !.pc = "deleteUrl"]]
  /\ UNCHANGED <<dbConnected, now, urls, creates, visits, storeUp, reads, results, localStorage, submits>>

\* deleteUrl: await Url.deleteOne({shortcode}); deletedCount 0 gives
\* success: false and the handler answers 500 DELETE_FAILED
DeleteUrl(d) ==
  /\ deletes[d].pc = "deleteUrl"
  /\ storeUp
  /\ LET hits == {u \in urls : u.shortcode = deletes[d].shortcode}
     IN /\ urls' = urls \ hits
        /\ deletes' =
             [deletes EXCEPT ![d] =
                [deletes[d] EXCEPT !.pc = "done",
                                   !.res = IF hits = {}
                                           THEN Res(500, "DELETE_FAILED")
                                           ELSE Res(200, "")]]
  /\ UNCHANGED <<dbConnected, now, clicks, creates, visits, storeUp, reads, results, localStorage, submits>>

(***************************************************************************)
(* GET /shorturls and UrlService.getAllUrls                                *)
(***************************************************************************)
GetShorturls(r, includeInactive) ==
  /\ CanStart(reads, r)
  /\ reads' =
       [reads EXCEPT ![r] =
          IF ~dbConnected
          THEN [reads[r] EXCEPT !.pc = "done", !.kind = "list",
                                !.includeInactive = includeInactive,
                                !.res = Res(503, "DATABASE_UNAVAILABLE")]
          ELSE [reads[r] EXCEPT !.pc = "listFind", !.kind = "list",
                                !.includeInactive = includeInactive]]
  /\ UNCHANGED <<dbConnected, storeUp, now, urls, clicks, creates, visits, deletes, results, localStorage, submits>>

\* the isExpired of the list read off the isActive flag
UrlsWithExtras_FromFlag(found) ==
  {[shortcode |-> u.shortcode, originalUrl |-> u.originalUrl,
    expiresAt |-> u.expiresAt, isActive |-> u.isActive,
    totalClicks |-> u.totalClicks, lastClickAt |-> u.lastClickAt,
    isExpired |-> ~u.isActive,
    timeRemaining |-> IF u.expiresAt > now THEN u.expiresAt - now ELSE 0]
   : u \in found}

\* getAllUrls: urls.map(url => ({...url, shortLink, isExpired: now >
\* url.expiresAt, timeRemaining: ...})); shortLink is the shortcode behind a
\* fixed prefix.  The page is the whole result within the bounds (limit 50),
\* and its order, by createdAt, is not kept.
UrlsWithExtras(found) ==
  {[shortcode |-> u.shortcode, originalUrl |-> u.originalUrl,
    expiresAt |-> u.expiresAt, isActive |-> u.isActive,
    totalClicks |-> u.totalClicks, lastClickAt |-> u.lastClickAt,
    isExpired |-> now > u.expiresAt,
    timeRemaining |-> IF u.expiresAt > now THEN u.expiresAt - now ELSE 0]
   : u \in found}

\* getAllUrls: const urls = await Url.find(filter)...lean(), then the
\* computed fields
ListFind(r) ==
  /\ reads[r].pc = "listFind"
  /\ storeUp
  /\ LET found == {u \in urls : reads[r].includeInactive \/ u.isActive}
     IN reads' = [reads EXCEPT ![r] =
                    [reads[r] EXCEPT !.pc = "listCount",
                                     !.list = UrlsWithExtras(found)]]
  /\ UNCHANGED <<dbConnected, storeUp, now, urls, clicks, creates, visits, deletes, results, localStorage, submits>>

\* getAllUrls: const totalCount = await Url.countDocuments(filter); the
\* handler answers result.urls
ListCount(r) ==
  /\ reads[r].pc = "listCount"
  /\ storeUp
  /\ reads' = [reads EXCEPT ![r] =
                 [reads[r] EXCEPT !.pc = "done", !.res = Res(200, "")]]
  /\ UNCHANGED <<dbConnected, storeUp, now, urls, clicks, creates, visits, deletes, results, localStorage, submits>>

(***************************************************************************)
(* GET /shorturls/:shortcode and UrlService.getUrlStats                    *)
(***************************************************************************)
StatsLimit == 100

\* .sort({timestamp: -1}); clicks of one timestamp keep the store's order,
\* for which _id stands
RECURSIVE NewestFirst(_)
NewestFirst(found) ==
  IF found = {} THEN <<>>
  ELSE LET k == CHOOSE k \in found :
                  \A j \in found : \/ k.timestamp > j.timestamp
                                   \/ (k.timestamp = j.timestamp /\ k._id <= j._id)
       IN <<k>> \o NewestFirst(found \ {k})

\* .limit(n)
Limit(seq, n) == SubSeq(seq, 1, IF Len(seq) < n THEN Len(seq) ELSE n)

\* getClicksByShortcode without .select('-ip')
getClicksByShortcode_WithIp(store, shortcode, limit) ==
  Limit(NewestFirst({k \in store : k.shortcode = shortcode}), limit)

\* clickSchema.statics.getClicksByShortcode: find({shortcode}).sort(...)
\* .limit(limit).select('-ip').lean()
getClicksByShortcode(store, shortcode, limit) ==
  LET found == Limit(NewestFirst({k \in store : k.shortcode = shortcode}), limit)
  IN [i \in 1..Len(found) |->
        [f \in DOMAIN found[i] \ {"ip"} |-> found[i][f]]]

\* { $sort: { count: -1 } }
RECURSIVE ByCount(_)
ByCount(groups) ==
  IF groups = {} THEN <<>>
  ELSE LET g == CHOOSE g \in groups : \A h \in groups : g.count >= h.count
       IN <<g>> \o ByCount(groups \ {g})

\* { $max: '$timestamp' }
MaxTimestamp(found) ==
  CHOOSE t \in {k.timestamp : k \in found} : \A k \in found : t >= k.timestamp

LocationLimit == 50

\* getLocationStats without the $limit stage
getLocationStats_NoLimit(store, shortcode) ==
  LET matched == {k \in store : k.shortcode = shortcode}
      keys == {[country |-> k.location.country, city |-> k.location.city]
               : k \in matched}
      Of(key) == {k \in matched : /\ k.location.country = key.country
                                  /\ k.location.city = key.city}
  IN ByCount({[_id |-> key, count |-> Cardinality(Of(key)),
               lastClick |-> MaxTimestamp(Of(key))] : key \in keys})

\* clickSchema.statics.getLocationStats
getLocationStats(store, shortcode) ==
  LET matched == {k \in store : k.shortcode = shortcode}
      keys == {[country |-> k.location.country, city |-> k.location.city]
               : k \in matched}
      Of(key) == {k \in matched : /\ k.location.country = key.country
                                  /\ k.location.city = key.city}
  IN Limit(ByCount({[_id |-> key, count |-> Cardinality(Of(key)),
                     lastClick |-> MaxTimestamp(Of(key))] : key \in keys}),
           LocationLimit)

\* clickSchema.statics.getDeviceStats
getDeviceStats(store, shortcode) ==
  LET matched == {k \in store : k.shortcode = shortcode}
      keys == {[type |-> k.device.type, browser |-> k.device.browser,
                os |-> k.device.os] : k \in matched}
      Of(key) == {k \in matched : /\ k.device.type = key.type
                                  /\ k.device.browser = key.browser
                                  /\ k.device.os = key.os}
  IN ByCount({[_id |-> key, count |-> Cardinality(Of(key))] : key \in keys})

\* `${click.location.city || 'Unknown'}, ${click.location.country || 'Unknown'}`
LocationText(location) ==
  <<IF location.city = "" THEN "Unknown" ELSE location.city,
    IF location.country = "" THEN "Unknown" ELSE location.country>>

\* the handler's response, built from what getUrlStats returned
StatsResponse(stats) ==
  [originalUrl |-> stats.originalUrl,
   expiresAt |-> stats.expiresAt,
   totalClicks |-> stats.totalClicks,
   clickDetails |->
     [i \in 1..Len(stats.analytics.recentClicks) |->
        [timestamp |-> stats.analytics.recentClicks[i].timestamp,
         location |-> LocationText(stats.analytics.recentClicks[i].location)]],
   analytics |-> [locationStats |-> stats.analytics.locationStats,
                  deviceStats |-> stats.analytics.deviceStats]]

\* getUrlStats: the object it returns; url.isExpired is evaluated when the
\* object is put together
BuildStats(url, analytics) ==
  [originalUrl |-> url.originalUrl,
   shortcode |-> url.shortcode,
   expiresAt |-> url.expiresAt,
   isActive |-> url.isActive,
   isExpired |-> isExpired(url),
   totalClicks |-> url.totalClicks,
   lastClickAt |-> url.lastClickAt,
   analytics |-> analytics]

GetShorturlStats(r, shortcode) ==
  /\ CanStart(reads, r)
  /\ reads' =
       [reads EXCEPT ![r] =
          IF ~dbConnected
          THEN [reads[r] EXCEPT !.pc = "done", !.kind = "stats",
                                !.shortcode = shortcode,
                                !.res = Res(503, "DATABASE_UNAVAILABLE")]
          ELSE [reads[r] EXCEPT !.pc = "statsFind", !.kind = "stats",
                                !.shortcode = shortcode]]
  /\ UNCHANGED <<dbConnected, storeUp, now, urls, clicks, creates, visits, deletes, results, localStorage, submits>>

\* a lookup for the statistics that counts the link as a redirect does
StatsFind_Counting(r) ==
  /\ reads[r].pc = "statsFind"
  /\ storeUp
  /\ LET url == FindOne(reads[r].shortcode, FALSE)
     IN /\ reads' =
             [reads EXCEPT ![r] =
                IF url = NoUrl
                THEN [reads[r] EXCEPT !.pc = "done", !.res = Res(404, "NOT_FOUND")]
                ELSE [reads[r] EXCEPT !.pc = "statsClicks", !.url = url]]
        /\ urls' = IF url = NoUrl THEN urls ELSE incrementClicks(url)
  /\ UNCHANGED <<dbConnected, storeUp, now, clicks, creates, visits, deletes, results, localStorage, submits>>

\* getUrlStats: const url = await Url.findOne({shortcode}); null gives 404
StatsFind(r) ==
  /\ reads[r].pc = "statsFind"
  /\ storeUp
  /\ LET url == FindOne(reads[r].shortcode, FALSE)
     IN reads' =
          [reads EXCEPT ![r] =
             IF url = NoUrl
             THEN [reads[r] EXCEPT !.pc = "done", !.res = Res(404, "NOT_FOUND")]
             ELSE [reads[r] EXCEPT !.pc = "statsClicks", !.url = url]]
  /\ UNCHANGED <<dbConnected, storeUp, now, urls, clicks, creates, visits, deletes, results, localStorage, submits>>

\* const clicks = await Click.getClicksByShortcode(shortcode, 100)
StatsClicks(r) ==
  /\ reads[r].pc = "statsClicks"
  /\ storeUp
  /\ reads' =
       [reads EXCEPT ![r] =
          [reads[r] EXCEPT
             !.pc = "statsLocation",
             !.stats.analytics.recentClicks =
                getClicksByShortcode(clicks, reads[r].shortcode, StatsLimit)]]
  /\ UNCHANGED <<dbConnected, storeUp, now, urls, clicks, creates, visits, deletes, results, localStorage, submits>>

\* const locationStats = await Click.getLocationStats(shortcode)
StatsLocation(r) ==
  /\ reads[r].pc = "statsLocation"
  /\ storeUp
  /\ reads' =
       [reads EXCEPT ![r] =
          [reads[r] EXCEPT
             !.pc = "statsDevice",
             !.stats.analytics.locationStats =
                getLocationStats(clicks, reads[r].shortcode)]]
  /\ UNCHANGED <<dbConnected, storeUp, now, urls, clicks, creates, visits, deletes, results, localStorage, submits>>

\* const deviceStats = await Click.getDeviceStats(shortcode)
StatsDevice(r) ==
  /\ reads[r].pc = "statsDevice"
  /\ storeUp
  /\ reads' =
       [reads EXCEPT ![r] =
          [reads[r] EXCEPT
             !.pc = "statsReferer",
             !.stats.analytics.deviceStats =
                getDeviceStats(clicks, reads[r].shortcode)]]
  /\ UNCHANGED <<dbConnected, storeUp, now, urls, clicks, creates, visits, deletes, results, localStorage, submits>>

\* const refererStats = await Click.getRefererStats(shortcode) (its groups
\* are not kept); then the result is put together, url.isExpired being
\* evaluated at this moment, and the handler answers
StatsReferer(r) ==
  /\ reads[r].pc = "statsReferer"
  /\ storeUp
  /\ LET stats == BuildStats(reads[r].url, reads[r].stats.analytics)
     IN reads' =
          [reads EXCEPT ![r] =
             [reads[r] EXCEPT !.pc = "done", !.stats = stats,
                              !.response = StatsResponse(stats),
                              !.res = Res(200, "")]]
  /\ UNCHANGED <<dbConnected, storeUp, now, urls, clicks, creates, visits, deletes, results, localStorage, submits>>

(***************************************************************************)
(* The URLShortener component of the frontend.  `results` is the React     *)
(* state of the history, localStorage the item urlShortenerHistory.  The   *)
(* request of form f is create request f.                                  *)
(***************************************************************************)
\* isValidUrl of the component: new URL(url) parses and the protocol, which
\* the parser lower-cases, is http: or https:
isValidUrl_Form(u) ==
  /\ Len(u) = 3
  /\ u[2] = SchemeSep
  /\ ToLowerCase(u[1]) \in {"http", "https"}

\* validateForm: the fields with an error
validateForm(form) ==
  {field \in {"url", "validity", "shortcode"} :
     \/ field = "url" /\ (~Truthy(form.url) \/ ~isValidUrl_Form(form.url))
     \/ /\ field = "validity"
        /\ form.hasValidity /\ form.validity # 0
        /\ (form.validity <= 0 \/ form.validity > MaxValidity)
     \/ /\ field = "shortcode"
        /\ Truthy(form.shortcode)
        /\ (~AlnumOnly(form.shortcode) \/ ShortcodeLengthBad(Len(form.shortcode)))}

HistoryLimit == 50

\* saveToLocalStorage: urls.slice(0, 50)
saveToLocalStorage(history) == Limit(history, HistoryLimit)

\* handleSubmit up to `await api.createShortUrl(payload)`.  The function
\* belongs to the render in which the button was clicked, so the `results`
\* it will prepend to is the state of that render.  The button of a form is
\* disabled while its request is in flight.
HandleSubmit(f, form) ==
  /\ submits[f].pc = "idle"
  /\ \A j \in FormIds : j < f => submits[j].pc # "idle"
  /\ Truthy(form.url)
  /\ submits' =
       [submits EXCEPT ![f] =
          IF validateForm(form) # {}
          THEN [submits[f] EXCEPT !.errors = validateForm(form)]
          ELSE [pc |-> "awaiting", form |-> form, results |-> results,
                errors |-> {}]]
  /\ UNCHANGED <<dbConnected, storeUp, now, urls, clicks, creates, visits, deletes, reads, results, localStorage>>

\* the request of form f reaches the server
SubmitPost(f) ==
  /\ submits[f].pc = "awaiting"
  /\ PostShorturls(f, submits[f].form)

\* handleSubmit after the await: on success the new entry is put in front
\* of the captured `results`, and that list is set as the state and saved
HandleResponse(f) ==
  /\ submits[f].pc = "awaiting"
  /\ creates[f].pc = "done"
  /\ LET success == creates[f].res.status = 201
         newResult == [shortcode |-> creates[f].res.shortcode,
                       originalUrl |-> submits[f].form.url]
         updatedResults == <<newResult>> \o submits[f].results
     IN /\ results' = IF success THEN updatedResults ELSE results
        /\ localStorage' = IF success THEN saveToLocalStorage(updatedResults)
                           ELSE localStorage
        /\ submits' =
             [submits EXCEPT ![f] =
                [submits[f] EXCEPT !.pc = "done",
                                   !.errors = IF success THEN {} ELSE {"submit"}]]
  /\ UNCHANGED <<dbConnected, storeUp, now, urls, clicks, creates, visits, deletes, reads>>

(***************************************************************************)
(* The store going away and coming back.  Nothing in the server reacts to  *)
(* either: the 'disconnected' and 'reconnected' listeners only log.  A     *)
(* store operation of a request that is waiting fails with a timeout.      *)
(***************************************************************************)
Disconnect ==
  /\ storeUp
  /\ storeUp' = FALSE
  /\ UNCHANGED <<dbConnected, now, urls, clicks, creates, visits, deletes, reads, results, localStorage, submits>>

Reconnect ==
  /\ ~storeUp
  /\ storeUp' = TRUE
  /\ UNCHANGED <<dbConnected, now, urls, clicks, creates, visits, deletes, reads, results, localStorage, submits>>

\* createShortUrl rethrows; the handler's catch answers
CreateStoreError(c) ==
  /\ creates[c].pc \in {"findOne", "save"}
  /\ ~storeUp
  /\ creates' = [creates EXCEPT ![c] =
                   [creates[c] EXCEPT
                      !.pc = "done", !.err = "store",
                      !.res = CreateCatch("Failed to create short URL")]]
  /\ UNCHANGED <<dbConnected, storeUp, now, urls, clicks, visits, deletes, reads, results, localStorage, submits>>

\* getUrlByShortcode and recordClick rethrow; the handler's catch answers 500
VisitStoreError(v) ==
  /\ visits[v].pc \in {"find", "expire", "saveClick", "increment"}
  /\ ~storeUp
  /\ visits' = [visits EXCEPT ![v] =
                  [visits[v] EXCEPT !.pc = "done", !.err = "store",
                                    !.res = Res(500, "INTERNAL_ERROR")]]
  /\ UNCHANGED <<dbConnected, storeUp, now, urls, clicks, creates, deletes, reads, results, localStorage, submits>>

\* getUrlByShortcode rethrows (500 INTERNAL_ERROR); deleteUrl catches and
\* returns success: false (500 DELETE_FAILED)
DeleteStoreError(d) ==
  /\ deletes[d].pc \in {"find", "expire", "deleteClicks", "deleteUrl"}
  /\ ~storeUp
  /\ deletes' = [deletes EXCEPT ![d] =
                   [deletes[d] EXCEPT
                      !.pc = "done",
                      !.res = IF deletes[d].pc \in {"find", "expire"}
                              THEN Res(500, "INTERNAL_ERROR")
                              ELSE Res(500, "DELETE_FAILED")]]
  /\ UNCHANGED <<dbConnected, storeUp, now, urls, clicks, creates, visits, reads, results, localStorage, submits>>

\* getAllUrls and getUrlStats rethrow; the handler's catch answers 500
ReadStoreError(r) ==
  /\ reads[r].pc \notin {"idle", "done"}
  /\ ~storeUp
  /\ reads' = [reads EXCEPT ![r] =
                 [reads[r] EXCEPT !.pc = "done",
                                  !.res = Res(500, "INTERNAL_ERROR")]]
  /\ UNCHANGED <<dbConnected, storeUp, now, urls, clicks, creates, visits, deletes, results, localStorage, submits>>

(***************************************************************************)
(* Inputs                                                                  *)
(***************************************************************************)
CodeAbc == <<"a", "b", "c">>

Body(url, hasValidity, validity, shortcode) ==
  [url |-> url, hasValidity |-> hasValidity, validity |-> validity,
   shortcode |-> shortcode, shortcodeIsNumber |-> FALSE]

\* a body whose shortcode is a JSON number, {"url": ..., "shortcode": 12}:
\* express.json() hands the handler a number; `shortcode` holds its digits,
\* which is what the regex test, the query and the schema cast it to
NumberBody(url, digits) ==
  [Body(url, FALSE, 0, digits) EXCEPT !.shortcodeIsNumber = TRUE]

UrlExample == <<"https", "://", "example.com">>
UrlOther == <<"http", "://", "a.io">>

\* requests of the concurrent system: valid bodies, with and without a
\* custom shortcode
Bodies ==
  {Body(UrlExample, TRUE, 1, CodeAbc),
   Body(UrlOther, FALSE, 0, CodeAbc),
   Body(UrlExample, FALSE, 0, <<>>)}

VisitCodes == {CodeAbc}

\* Safari on an iPhone: "Mozilla/5.0 (iPhone; CPU iPhone OS 16_0 like Mac OS
\* X) AppleWebKit/605.1.15 (KHTML, like Gecko) Version/16.0 Mobile/15E148
\* Safari/604.1"
UaIphoneSafari == <<"Mozilla", "iPhone", "Mac", "Mobile", "Safari">>

\* the requests of the concurrent system come from one local client
Requests == {RequestData(LocalIp, UaIphoneSafari, MaxUserAgentLen)}

Next ==
  \/ Connect
  \/ Tick
  \/ Cron
  \/ \E c \in Creators, body \in Bodies : PostShorturls(c, body)
  \/ \E c \in Creators : CreateFindOne(c)
  \/ \E c \in Creators : CreateSave(c)
  \/ \E v \in Visitors, s \in VisitCodes, q \in Requests : GetShortcode(v, s, q)
  \/ \E v \in Visitors : RecordClickFind(v)
  \/ \E v \in Visitors : RecordClickExpire(v)
  \/ \E v \in Visitors : RecordClickSave(v)
  \/ \E v \in Visitors : RecordClickIncrement(v)
  \/ \E d \in Deleters, s \in VisitCodes : DeleteShorturl(d, s)
  \/ \E d \in Deleters : DeleteFind(d)
  \/ \E d \in Deleters : DeleteExpire(d)
  \/ \E d \in Deleters : DeleteClicks(d)
  \/ \E d \in Deleters : DeleteUrl(d)

Spec == Init /\ [][Next]_vars

(***************************************************************************)
(* The create handler alone, over the whole range of request bodies; the   *)
(* clock stands still (the handler reads it only to compute expiresAt).    *)
(***************************************************************************)
Code20 == Repeat("Z", MaxShortcodeLen)

AllUrls ==
  {UrlExample, UrlOther,
   <<"ftp", "://", "example.com">>,
   <<"HTTP", "://", "example.com">>,
   <<"example.com">>,
   <<>>}

AllValidities == {0 - 1, 0, 1, MaxValidity, MaxValidity + 1}

AllCodes ==
  {<<>>, CodeAbc, Code20,
   <<"a", "b">>,
   Repeat("9", MaxShortcodeLen + 1),
   <<"a", "-", "c">>}

\* shortcodes sent as JSON numbers: 12 and 123
AllNumberCodes == {<<"1", "2">>, <<"1", "2", "3">>}

AllBodies ==
  {Body(u, TRUE, n, s) : u \in AllUrls, n \in AllValidities, s \in AllCodes}
  \cup {Body(u, FALSE, 0, s) : u \in AllUrls, s \in AllCodes}
  \cup {NumberBody(UrlExample, s) : s \in AllNumberCodes}

NextCreate ==
  \/ Connect
  \/ \E body \in AllBodies : PostShorturls(1, body)
  \/ \E c \in Creators \ {1}, body \in Bodies : PostShorturls(c, body)
  \/ \E c \in Creators : CreateFindOne(c)
  \/ \E c \in Creators : CreateSave(c)

SpecCreate == Init /\ [][NextCreate]_vars

(***************************************************************************)
(* Shortcode generation next to creates with custom shortcodes of the      *)
(* generated form: the clock stands still.                                 *)
(***************************************************************************)
GeneratedBodies == {Body(UrlExample, FALSE, 0, s) : s \in GeneratedCodes}

NextGenerate ==
  \/ Connect
  \/ \E c \in Creators, body \in GeneratedBodies : PostShorturls(c, body)
  \/ \E c \in Creators : CreateFindOne(c)
  \/ \E c \in Creators : CreateSave(c)
  \/ \E c \in Creators : PreSave(c, Body(UrlExample, FALSE, 0, <<>>))
  \/ \E c \in Creators : PreSaveGenerate(c)

SpecGenerate == Init /\ [][NextGenerate]_vars

(***************************************************************************)
(* The server started on a store that already holds links: MongoDB keeps   *)
(* its collections across restarts of the server.  Two links are stored,   *)
(* created at time 0 by an earlier run: abc with validity 1 and xyz with   *)
(* the default validity; no click has been recorded yet.                   *)
(***************************************************************************)
CodeXyz == <<"x", "y", "z">>

SeedUrls ==
  {[NewUrl(UrlOther, 1, CodeAbc) EXCEPT !._id = NumCreates + 1],
   [NewUrl(UrlExample, DefaultValidity, CodeXyz) EXCEPT !._id = NumCreates + 2]}

InitStored ==
  /\ dbConnected = FALSE
  /\ storeUp = TRUE
  /\ now = 0
  /\ urls = SeedUrls
  /\ clicks = {}
  /\ creates = [c \in Creators |-> IdleCreate]
  /\ visits = [v \in Visitors |-> IdleVisit]
  /\ deletes = [d \in Deleters |-> IdleDelete]
  /\ reads = [r \in Readers |-> IdleRead]
  /\ results = <<>>
  /\ localStorage = <<>>
  /\ submits = [f \in FormIds |-> IdleSubmit]

\* redirects and sweeps over the stored links
NextStored ==
  \/ Connect
  \/ Tick
  \/ Cron
  \/ \E v \in Visitors, s \in VisitCodes, q \in Requests : GetShortcode(v, s, q)
  \/ \E v \in Visitors : RecordClickFind(v)
  \/ \E v \in Visitors : RecordClickExpire(v)
  \/ \E v \in Visitors : RecordClickSave(v)
  \/ \E v \in Visitors : RecordClickIncrement(v)

SpecStored == InitStored /\ [][NextStored]_vars

\* the sweep and the clock next to two redirects
NextSweep ==
  \/ Connect
  \/ Tick
  \/ Cron
  \/ \E v \in {1, 2}, s \in VisitCodes, q \in Requests : GetShortcode(v, s, q)
  \/ \E v \in {1, 2} : RecordClickFind(v)
  \/ \E v \in {1, 2} : RecordClickExpire(v)
  \/ \E v \in {1, 2} : RecordClickSave(v)
  \/ \E v \in {1, 2} : RecordClickIncrement(v)

SpecSweep == InitStored /\ [][NextSweep]_vars

(***************************************************************************)
(* The list and statistics requests on the stored links, while the clock   *)
(* advances and the sweep runs.                                            *)
(***************************************************************************)
StatsCodes == {CodeAbc, CodeXyz}

NextRead ==
  \/ Connect
  \/ Tick
  \/ Cron
  \/ \E r \in Readers, b \in BOOLEAN : GetShorturls(r, b)
  \/ \E r \in Readers : ListFind(r)
  \/ \E r \in Readers : ListCount(r)
  \/ \E r \in Readers, s \in StatsCodes : GetShorturlStats(r, s)
  \/ \E r \in Readers : StatsFind(r)
  \/ \E r \in Readers : StatsClicks(r)
  \/ \E r \in Readers : StatsLocation(r)
  \/ \E r \in Readers : StatsDevice(r)
  \/ \E r \in Readers : StatsReferer(r)

SpecRead == InitStored /\ [][NextRead]_vars

(***************************************************************************)
(* One statistics request next to two redirects from several client        *)
(* addresses; the clock stands still.                                      *)
(***************************************************************************)
Ips == {LocalIp, PublicIp, PrivateIp}

RequestsByIp == {RequestData(ip, UaIphoneSafari, MaxUserAgentLen) : ip \in Ips}

NextStats ==
  \/ Connect
  \/ \E v \in {1, 2}, s \in VisitCodes, q \in RequestsByIp : GetShortcode(v, s, q)
  \/ \E v \in {1, 2} : RecordClickFind(v)
  \/ \E v \in {1, 2} : RecordClickSave(v)
  \/ \E v \in {1, 2} : RecordClickIncrement(v)
  \/ GetShorturlStats(1, CodeAbc)
  \/ StatsFind(1)
  \/ StatsClicks(1)
  \/ StatsLocation(1)
  \/ StatsDevice(1)
  \/ StatsReferer(1)

SpecStats == InitStored /\ [][NextStats]_vars

(***************************************************************************)
(* The sweep after either outcome of the startup connection, while the     *)
(* store goes away and comes back.  connectDB() either connects, and the    *)
(* server sets dbConnected, or fails after serverSelectionTimeoutMS because *)
(* the store is away: under NODE_ENV=development it then returns null and   *)
(* the server goes on with dbConnected false (otherwise the process exits). *)
(* Nothing sets dbConnected afterwards.  node-cron fires the task every     *)
(* five minutes for as long as the process runs: weak fairness of Cron.     *)
(***************************************************************************)
InitStarted ==
  /\ storeUp \in BOOLEAN
  /\ dbConnected = storeUp
  /\ now = 0
  /\ urls = SeedUrls
  /\ clicks = {}
  /\ creates = [c \in Creators |-> IdleCreate]
  /\ visits = [v \in Visitors |-> IdleVisit]
  /\ deletes = [d \in Deleters |-> IdleDelete]
  /\ reads = [r \in Readers |-> IdleRead]
  /\ results = <<>>
  /\ localStorage = <<>>
  /\ submits = [f \in FormIds |-> IdleSubmit]

NextStarted ==
  \/ Disconnect
  \/ Reconnect
  \/ Tick
  \/ Cron
  \/ \E v \in {1, 2}, s \in VisitCodes, q \in Requests : GetShortcode(v, s, q)
  \/ \E v \in {1, 2} : RecordClickFind(v)
  \/ \E v \in {1, 2} : RecordClickExpire(v)
  \/ \E v \in {1, 2} : RecordClickSave(v)
  \/ \E v \in {1, 2} : RecordClickIncrement(v)
  \/ \E v \in {1, 2} : VisitStoreError(v)

SpecStarted == InitStarted /\ [][NextStarted]_vars /\ WF_vars(Cron)

(***************************************************************************)
(* The location statistics over a store that holds the Clicks of earlier   *)
(* runs: the Clicks of xyz come from `groups` cities, one or two Clicks a  *)
(* city, recorded before the server started; abc has one Click.  A         *)
(* statistics request runs next to one redirect; the clock stands still.   *)
(***************************************************************************)
\* the numbers of cities: none, few, and around the limit of the aggregation
SeedGroups == {0, 1, 2, LocationLimit - 1, LocationLimit, LocationLimit + 1}

\* the Clicks stored for city i
SeedGroupSize(i) == IF i % 10 = 0 THEN 2 ELSE 1

\* the j-th Click of city i of shortcode s
SeedClick(s, i, j) ==
  [NewClick(NumVisits + 3 * i + j,
            parseRequestData(s, RequestData(PublicIp, UaIphoneSafari,
                                            MaxUserAgentLen)))
     EXCEPT !.timestamp = 0 - ((i + j) % 3),
            !.location = [country |-> "US", city |-> ToString(i)]]

SeedClicks(groups) ==
  {SeedClick(CodeXyz, q[1], q[2]) :
     q \in {p \in (1..groups) \X (1..2) : p[2] <= SeedGroupSize(p[1])}}
  \cup {SeedClick(CodeAbc, 0, 1)}

\* the links of the seeded store with the counters of their Clicks
SeedUrlsCounted(store) ==
  {[u EXCEPT !.totalClicks = Cardinality({k \in store : k.shortcode = u.shortcode}),
             !.lastClickAt = 0]
   : u \in SeedUrls}

InitLocation ==
  /\ dbConnected = FALSE
  /\ storeUp = TRUE
  /\ now = 0
  /\ \E groups \in SeedGroups :
       /\ clicks = SeedClicks(groups)
       /\ urls = SeedUrlsCounted(SeedClicks(groups))
  /\ creates = [c \in Creators |-> IdleCreate]
  /\ visits = [v \in Visitors |-> IdleVisit]
  /\ deletes = [d \in Deleters |-> IdleDelete]
  /\ reads = [r \in Readers |-> IdleRead]
  /\ results = <<>>
  /\ localStorage = <<>>
  /\ submits = [f \in FormIds |-> IdleSubmit]

NextLocation ==
  \/ Connect
  \/ \E q \in RequestsByIp : GetShortcode(1, CodeXyz, q)
  \/ RecordClickFind(1)
  \/ RecordClickSave(1)
  \/ RecordClickIncrement(1)
  \/ \E s \in StatsCodes : GetShorturlStats(1, s)
  \/ StatsFind(1)
  \/ StatsClicks(1)
  \/ StatsLocation(1)
  \/ StatsDevice(1)
  \/ StatsReferer(1)

SpecLocation == InitLocation /\ [][NextLocation]_vars

(***************************************************************************)
(* One redirect request over the whole range of its headers and client     *)
(* addresses; the clock stands still.                                      *)
(***************************************************************************)
AllUserAgents ==
  {UaIphoneSafari,
   <<"iPhone", "Safari">>,
   <<"Mozilla", "iPad", "Mac", "Safari">>,
   <<"Mozilla", "Windows", "Chrome", "Safari">>,
   <<"Mozilla", "Linux", "Android", "Mobile", "Chrome", "Safari">>,
   <<"Mozilla", "Mac", "Firefox">>,
   <<"Mozilla", "iPad", "Mac", "Mobile", "Safari">>,
   <<"Mozilla", "Tablet", "Firefox">>,
   <<"Mozilla", "Windows", "Edge">>,
   <<"Opera", "Windows">>,
   <<"Opera", "Opera Mini">>,
   <<"Mozilla", "Windows", "IEMobile">>,
   <<"BlackBerry">>,
   <<"iPod", "Safari">>,
   <<"curl">>}

AllUaLens == {MaxUserAgentLen - 1, MaxUserAgentLen, MaxUserAgentLen + 1}

AllIps == Ips \cup {Ipv6LocalIp, MappedLocalIp}

AllRequests ==
  {RequestData(ip, ua, n) : ip \in Ips, ua \in AllUserAgents, n \in AllUaLens}
  \cup {RequestData(ip, <<>>, 0) : ip \in Ips}
  \cup {RequestData(ip, UaIphoneSafari, MaxUserAgentLen) : ip \in AllIps}

NextVisit ==
  \/ Connect
  \/ \E s \in VisitCodes, q \in AllRequests : GetShortcode(1, s, q)
  \/ RecordClickFind(1)
  \/ RecordClickSave(1)
  \/ RecordClickIncrement(1)

SpecVisit == InitStored /\ [][NextVisit]_vars

(***************************************************************************)
(* The five endpoints while the store goes away and comes back; the clock  *)
(* stands still.                                                           *)
(***************************************************************************)
NextOutage ==
  \/ Connect
  \/ Disconnect
  \/ Reconnect
  \/ \E body \in Bodies : PostShorturls(1, body)
  \/ CreateFindOne(1)
  \/ CreateSave(1)
  \/ CreateStoreError(1)
  \/ \E s \in VisitCodes, q \in Requests : GetShortcode(1, s, q)
  \/ RecordClickFind(1)
  \/ RecordClickSave(1)
  \/ RecordClickIncrement(1)
  \/ VisitStoreError(1)
  \/ \E s \in VisitCodes : DeleteShorturl(1, s)
  \/ DeleteFind(1)
  \/ DeleteClicks(1)
  \/ DeleteUrl(1)
  \/ DeleteStoreError(1)
  \/ \E r \in Readers : GetShorturls(r, TRUE)
  \/ \E r \in Readers : ListFind(r)
  \/ \E r \in Readers : ListCount(r)
  \/ \E r \in Readers, s \in VisitCodes : GetShorturlStats(r, s)
  \/ \E r \in Readers : StatsFind(r)
  \/ \E r \in Readers : StatsClicks(r)
  \/ \E r \in Readers : StatsLocation(r)
  \/ \E r \in Readers : StatsDevice(r)
  \/ \E r \in Readers : StatsReferer(r)
  \/ \E r \in Readers : ReadStoreError(r)

SpecOutage == InitStored /\ [][NextOutage]_vars

(***************************************************************************)
(* The forms of the component submitted against the server, each with its  *)
(* own custom shortcode; the clock stands still.                           *)
(***************************************************************************)
Forms ==
  {Body(UrlExample, FALSE, 0, CodeAbc),
   Body(UrlOther, TRUE, 1, CodeXyz),
   Body(UrlExample, FALSE, 0, <<"a", "b">>)}

NextForm ==
  \/ Connect
  \/ \E f \in FormIds, form \in Forms : HandleSubmit(f, form)
  \/ \E f \in FormIds : SubmitPost(f)
  \/ \E c \in Creators : CreateFindOne(c)
  \/ \E c \in Creators : CreateSave(c)
  \/ \E f \in FormIds : HandleResponse(f)

SpecForm == Init /\ [][NextForm]_vars

(***************************************************************************)
(* The read requests next to a redirect and a delete on the stored links;  *)
(* the clock stands still.                                                 *)
(***************************************************************************)
NextFrame ==
  \/ Connect
  \/ \E s \in VisitCodes, q \in Requests : GetShortcode(1, s, q)
  \/ RecordClickFind(1)
  \/ RecordClickSave(1)
  \/ RecordClickIncrement(1)
  \/ \E s \in VisitCodes : DeleteShorturl(1, s)
  \/ DeleteFind(1)
  \/ DeleteClicks(1)
  \/ DeleteUrl(1)
  \/ \E r \in {1, 2}, a \in BOOLEAN : GetShorturls(r, a)
  \/ \E r \in {1, 2} : ListFind(r)
  \/ \E r \in {1, 2} : ListCount(r)
  \/ \E r \in {1, 2}, s \in VisitCodes : GetShorturlStats(r, s)
  \/ \E r \in {1, 2} : StatsFind(r)
  \/ \E r \in {1, 2} : StatsClicks(r)
  \/ \E r \in {1, 2} : StatsLocation(r)
  \/ \E r \in {1, 2} : StatsDevice(r)
  \/ \E r \in {1, 2} : StatsReferer(r)

SpecFrame == InitStored /\ [][NextFrame]_vars

(***************************************************************************)
(* Properties                                                              *)
(***************************************************************************)
Quiescent ==
  /\ \A c \in Creators : creates[c].pc \in {"idle", "done"}
  /\ \A v \in Visitors : visits[v].pc \in {"idle", "done"}
  /\ \A d \in Deleters : deletes[d].pc \in {"idle", "done"}

\* the recordClick calls that resolved the link with this _id
ClicksOn(id) == {v \in Visitors : visits[v].url._id = id}

\* C1: when every recordClick call that resolved a link has completed
\* successfully (302), the link's totalClicks equals the number of those
\* calls: no increment is lost, whatever the interleaving.
C1_NoLostUpdate ==
  \A u \in urls :
    (\A v \in ClicksOn(u._id) : visits[v].res.status = 302)
      => u.totalClicks = Cardinality(ClicksOn(u._id))

\* the body of a create request is valid: http/https URL, validity omitted
\* or in [1, 525600], shortcode omitted or matching ^[A-Za-z0-9]{3,20}$
ValidBody(body) ==
  /\ Len(body.url) = 3
  /\ body.url[1] \in {"http", "https"}
  /\ body.url[2] = SchemeSep
  /\ body.url[3] \in Hosts
  /\ body.hasValidity => (body.validity >= 1 /\ body.validity <= MaxValidity)
  /\ Truthy(body.shortcode) => MatchesShortcodePattern(body.shortcode)

\* getActive as a function of the store: the link a lookup made now returns
GetActive(shortcode) ==
  {u \in urls : u.shortcode = shortcode /\ u.isActive /\ now <= u.expiresAt}

\* C2: every answered valid create request that the store was available to
\* and whose shortcode was omitted or unused succeeded with 201; the
\* shortcode returned matches ^[A-Za-z0-9]{3,20}$ and has 7 characters when
\* generated; and while the link it wrote is stored and unexpired, getActive
\* on that shortcode returns it with the submitted URL.
C2_ValidCreateSucceeds ==
  \A c \in Creators :
    LET cr == creates[c] IN
    (/\ cr.pc = "done"
     /\ cr.res.status # 503
     /\ ValidBody(cr.body)
     /\ cr.err \notin {"exists", "E11000"})
    => /\ cr.res.status = 201
       /\ MatchesShortcodePattern(cr.res.shortcode)
       /\ (~Truthy(cr.body.shortcode) => Len(cr.res.shortcode) = 7)
       /\ \A u \in urls :
            (u._id = cr.docId /\ now <= u.expiresAt)
              => (u \in GetActive(cr.res.shortcode)
                  /\ u.originalUrl = cr.body.url)

\* C3: once a delete of s has answered success and nothing is in flight, no
\* Click record with shortcode s remains (while s has not been created
\* again).
C3_DeleteCascades ==
  \A d \in Deleters :
    (/\ Quiescent
     /\ deletes[d].res.status = 200
     /\ \A u \in urls : u.shortcode # deletes[d].shortcode)
    => \A k \in clicks : k.shortcode # deletes[d].shortcode

\* C6: a create whose insert the unique index rejected answers 409, and one
\* link with that shortcode is stored at that moment.
C6_UniqueViolationIsConflict ==
  \A c \in Creators :
    creates[c].err = "E11000" => creates[c].res.status = 409

\* every link of the store is in the next store too, changed at most in
\* isActive, which is false for the link with this _id; none is added
OnlyDeactivated(id) ==
  /\ \A u \in urls :
       (IF u._id = id THEN [u EXCEPT !.isActive = FALSE] ELSE u) \in urls'
  /\ \A w \in urls' : \E u \in urls : w._id = u._id

\* One getUrlByShortcode call, of the redirect or of the delete handler:
\* `before` and `after` are the request before and after a step, returnedPc
\* the place the caller continues at when a link is returned.
LookupStepOk(before, after, returnedPc) ==
  /\ (before.pc = "find" /\ after.pc = returnedPc)
       => /\ \E u \in urls : /\ u.shortcode = before.shortcode
                             /\ u.isActive
                             /\ now <= u.expiresAt
                             /\ after.url = u
          /\ \A c \in Creators :
               (/\ creates[c].docId = after.url._id
                /\ creates[c].body.hasValidity
                /\ creates[c].body.validity = 1)
               => now <= creates[c].receivedAt + 1
  /\ (/\ before.pc = "find"
      /\ after.pc # "find"
      /\ \E u \in urls : /\ u.shortcode = before.shortcode
                         /\ u.isActive
                         /\ now > u.expiresAt)
       => /\ after.pc = "expire"
          /\ after.url \in urls
          /\ after.url.shortcode = before.shortcode
          /\ urls' = urls
  /\ (before.pc = "expire" /\ after.pc # "expire")
       => /\ after.pc = "done"
          /\ after.res.status = 404
          /\ OnlyDeactivated(before.url._id)
          /\ clicks' = clicks

C5_ConflictLeavesStore ==
  [][\A c \in Creators :
       (/\ creates[c].pc = "findOne"
        /\ creates'[c].pc # "findOne"
        /\ \E u \in urls : u.shortcode = creates[c].body.shortcode /\ u.isActive)
       => /\ creates'[c].pc = "done"
          /\ creates'[c].res.status = 409
          /\ creates'[c].res.code = "SHORTCODE_EXISTS"
          /\ creates'[c].docId = 0
          /\ urls' = urls
          /\ clicks' = clicks]_vars

\* a second create of a stored active shortcode, with another URL, was
\* refused and the stored link still has its own URL
C5_Witness ==
  \E c \in Creators :
    /\ creates[c].res.status = 409
    /\ \E u \in urls : /\ u.shortcode = creates[c].body.shortcode
                       /\ u.isActive
                       /\ u.originalUrl # creates[c].body.url
                       /\ u._id # UrlId(c)

\* the request would be accepted but for its validity
OtherwiseValid(body) ==
  /\ Len(body.url) = 3
  /\ body.url[1] \in {"http", "https"}
  /\ body.url[2] = SchemeSep
  /\ body.url[3] \in Hosts
  /\ MatchesShortcodePattern(body.shortcode)

\* C7: an answered create request that supplied a validity outside
\* [1, 525600] got 400 INVALID_VALIDITY and wrote no link (stated for
\* requests that are otherwise valid and carry a custom shortcode).
C7_ValidityRejected ==
  \A c \in Creators :
    LET cr == creates[c] IN
    (/\ cr.pc = "done"
     /\ cr.res.status # 503
     /\ OtherwiseValid(cr.body)
     /\ cr.body.hasValidity
     /\ (cr.body.validity < 1 \/ cr.body.validity > MaxValidity))
    => /\ cr.res.status = 400
       /\ cr.res.code = "INVALID_VALIDITY"
       /\ cr.docId = 0

\* the URL carries an explicit http or https scheme (schemes are
\* case-insensitive)
HasHttpScheme(u) ==
  /\ Len(u) >= 3
  /\ u[2] = SchemeSep
  /\ ToLowerCase(u[1]) \in {"http", "https"}

C9_RedirectAfterClick ==
  /\ [](\A v \in Visitors : visits[v].res.status = 302 => visits[v].clickId # 0)
  /\ [][\A v \in Visitors :
          (/\ visits[v].pc = "saveClick"
           /\ visits'[v].pc # "saveClick"
           /\ visits'[v].clickId = 0)
          => /\ visits'[v].pc = "done"
             /\ visits'[v].res.status = 500
             /\ urls' = urls
             /\ clicks' = clicks]_vars
  /\ [][\A v \in Visitors :
          visits[v].pc = "done" => visits'[v] = visits[v]]_vars

\* a Click save failed for a stored link: 500, and the link's counter and
\* lastClickAt are those the request read
C9_Witness ==
  \E v \in Visitors :
    /\ visits[v].err = "clickSave"
    /\ visits[v].res.status = 500
    /\ visits[v].url \in urls

\* totalClicks and lastClickAt of every link are the same in the next state,
\* and the same links are stored
SameCounters ==
  /\ \A u \in urls : \E w \in urls' : /\ w._id = u._id
                                      /\ w.totalClicks = u.totalClicks
                                      /\ w.lastClickAt = u.lastClickAt
  /\ \A w \in urls' : \E u \in urls : w._id = u._id

\* no link with this shortcode is stored, active and unexpired
NoneActive(shortcode) ==
  \A u \in urls : ~(u.shortcode = shortcode /\ u.isActive /\ now <= u.expiresAt)

\* C10: a recordClick whose lookup finds no stored, active, unexpired link
\* writes no Click, leaves every link's totalClicks and lastClickAt as they
\* are, and is answered 404.
C10_NotFoundWritesNothing ==
  [][\A v \in Visitors :
       /\ (/\ visits[v].pc = "find"
           /\ visits'[v].pc # "find"
           /\ NoneActive(visits[v].shortcode))
          => /\ visits'[v].pc \in {"done", "expire"}
             /\ visits'[v].pc = "done" => visits'[v].res.status = 404
             /\ visits'[v].clickId = 0
             /\ clicks' = clicks
             /\ SameCounters
       /\ (visits[v].pc = "expire" /\ visits'[v].pc # "expire")
          => /\ visits'[v].pc = "done"
             /\ visits'[v].res.status = 404
             /\ visits'[v].clickId = 0
             /\ clicks' = clicks
             /\ SameCounters]_vars

\* a redirect to a stored but inactive shortcode was answered 404 and no
\* Click carries that shortcode
C10_Witness ==
  \E v \in Visitors :
    /\ visits[v].res.status = 404
    /\ visits[v].clickId = 0
    /\ \E u \in urls : u.shortcode = visits[v].shortcode /\ ~u.isActive
    /\ \A k \in clicks : k.shortcode # visits[v].shortcode

\* the active links of the store
ActiveLinks == {u \in urls : u.isActive}

\* no lookup has found a link expired: a link that is inactive was
\* deactivated by a sweep
NoLazyExpiry ==
  /\ \A v \in Visitors :
       visits[v].pc # "expire" /\ (visits[v].res.status = 404 => visits[v].url = NoUrl)
  /\ \A d \in Deleters :
       deletes[d].pc # "expire" /\ (deletes[d].res.status = 404 => deletes[d].url = NoUrl)

C13_IsExpiredByClock ==
  [][\A r \in Readers :
       /\ (reads[r].pc = "listFind" /\ reads'[r].pc = "listCount")
            => /\ \A u \in urls :
                    (reads[r].includeInactive \/ u.isActive)
                    => \E e \in reads'[r].list :
                         /\ e.shortcode = u.shortcode
                         /\ e.isActive = u.isActive
                         /\ e.isExpired = (now > u.expiresAt)
               /\ \A e \in reads'[r].list :
                    /\ e.isExpired = (now > e.expiresAt)
                    /\ \E u \in urls : u.shortcode = e.shortcode
       /\ (reads[r].pc = "statsReferer" /\ reads'[r].pc = "done"
                                         /\ reads'[r].res.status = 200)
            => /\ reads'[r].stats.isExpired = (now > reads[r].url.expiresAt)
               /\ \A u \in urls :
                    u._id = reads[r].url._id
                    => reads'[r].stats.isExpired = (now > u.expiresAt)]_vars

\* a list answer shows a link whose flag is stale (active, expired) next to
\* an active unexpired one, and a statistics answer reports a link expired
C13_Witness ==
  /\ \E r \in Readers :
       /\ reads[r].kind = "list"
       /\ reads[r].res.status = 200
       /\ \E e \in reads[r].list : e.isActive /\ e.isExpired
       /\ \E e \in reads[r].list : e.isActive /\ ~e.isExpired
  /\ \E r \in Readers :
       /\ reads[r].kind = "stats"
       /\ reads[r].res.status = 200
       /\ reads[r].stats.isExpired

\* the stores that differ from this one in the ip of its Clicks only
IpVariants(store) ==
  {{[k EXCEPT !.ip = f[k]] : k \in store} : f \in [store -> Ips]}

\* what the three Click queries of getUrlStats return on a store
AnalyticsOn(store, shortcode) ==
  [recentClicks |-> getClicksByShortcode(store, shortcode, StatsLimit),
   locationStats |-> getLocationStats(store, shortcode),
   deviceStats |-> getDeviceStats(store, shortcode)]

\* C14: on every store, and on every store that differs from it only in
\* the ip of its Click records, recentClicks (getClicksByShortcode) and the
\* body of GET /shorturls/:shortcode are the same; and no answered
\* statistics request holds a Click with an ip field.
C14_IpNotExposed ==
  /\ \A s \in StatsCodes :
       \A other \in IpVariants(clicks) :
         /\ getClicksByShortcode(other, s, StatsLimit)
              = getClicksByShortcode(clicks, s, StatsLimit)
         /\ StatsResponse(BuildStats(FindOne(s, FALSE), AnalyticsOn(other, s)))
              = StatsResponse(BuildStats(FindOne(s, FALSE), AnalyticsOn(clicks, s)))
  /\ \A r \in Readers :
       \A i \in 1..Len(reads[r].stats.analytics.recentClicks) :
         "ip" \notin DOMAIN reads[r].stats.analytics.recentClicks[i]

\* a statistics request was answered with the details of two clicks that
\* came from different addresses
C14_Witness ==
  \E r \in Readers :
    /\ reads[r].res.status = 200
    /\ Len(reads[r].response.clickDetails) >= 2
    /\ \E k \in clicks, j \in clicks : k.ip # j.ip

\* C15: every Click recorded for a user agent with the words iphone and
\* safari and neither chrome nor firefox has the device type mobile, os iOS
\* and browser Safari.
C15_IphoneSafari ==
  \A k \in clicks :
    (/\ Includes(k.userAgent, "iphone")
     /\ Includes(k.userAgent, "safari")
     /\ ~Includes(k.userAgent, "chrome")
     /\ ~Includes(k.userAgent, "firefox"))
    => /\ k.device.type = "mobile"
       /\ k.device.os = "iOS"
       /\ k.device.browser = "Safari"

\* a request of this kind is received in this step
Received(slots, i) == slots[i].pc = "idle" /\ slots'[i].pc # "idle"

\* C16: a request of any of the five endpoints that is received while the
\* store is unavailable is answered 503 (the handlers answer 503 at their
\* first statement or not at all), also after a successful startup
\* connection; and one received while the store is connected and available
\* is not answered 503.
C16_UnavailableIs503 ==
  [][/\ \A c \in Creators :
          Received(creates, c)
          => /\ ~storeUp => creates'[c].res.status = 503
             /\ (storeUp /\ dbConnected) => creates'[c].res.status # 503
     /\ \A v \in Visitors :
          Received(visits, v)
          => /\ ~storeUp => visits'[v].res.status = 503
             /\ (storeUp /\ dbConnected) => visits'[v].res.status # 503
     /\ \A d \in Deleters :
          Received(deletes, d)
          => /\ ~storeUp => deletes'[d].res.status = 503
             /\ (storeUp /\ dbConnected) => deletes'[d].res.status # 503
     /\ \A r \in Readers :
          Received(reads, r)
          => /\ ~storeUp => reads'[r].res.status = 503
             /\ (storeUp /\ dbConnected) => reads'[r].res.status # 503]_vars

\* C18: a redirect whose User-Agent header is longer than 1000 characters,
\* for a link the lookup returned and with no refusal by the store, is
\* answered 302, its Click is stored with a user agent of 1000 characters,
\* and the link has been counted.
C18_LongUserAgentSucceeds ==
  \A v \in Visitors :
    (/\ visits[v].pc = "done"
     /\ visits[v].requestData.uaLen > MaxUserAgentLen
     /\ visits[v].url # NoUrl
     /\ visits[v].err \notin {"clickSave", "urlSave", "store"})
    => /\ visits[v].res.status = 302
       /\ \E k \in clicks : k._id = ClickId(v) /\ k.uaLen = MaxUserAgentLen
       /\ \E u \in urls : u._id = visits[v].url._id /\ u.totalClicks >= 1

\* C17: a delete request is answered 404 only when no link with its
\* shortcode is stored, and the step that answers 404 leaves links and
\* Clicks as they are.
C17_DeleteOnlyMissingIs404 ==
  [][\A d \in Deleters :
       (/\ deletes[d].pc \in {"find", "expire"}
        /\ deletes'[d].pc = "done"
        /\ deletes'[d].res.status = 404)
       => /\ \A u \in urls : u.shortcode # deletes[d].shortcode
          /\ urls' = urls
          /\ clicks' = clicks]_vars

\* C19: the totalClicks of a link that stays stored never decreases in a
\* step.
C19_TotalClicksMonotonic ==
  [][\A u \in urls : \A w \in urls' :
       w._id = u._id => w.totalClicks >= u.totalClicks]_vars

\* C20: when no recordClick and no deleteUrl is in flight, the totalClicks of
\* every stored link is the number of stored Clicks with its shortcode.
C20_CounterMatchesClicks ==
  (/\ \A v \in Visitors : visits[v].pc \in {"idle", "done"}
   /\ \A d \in Deleters : deletes[d].pc \in {"idle", "done"})
  => \A u \in urls :
       u.totalClicks = Cardinality({k \in clicks : k.shortcode = u.shortcode})

\* C21: no two stored links have the same shortcode.
C21_ShortcodeUnique ==
  \A u \in urls : \A w \in urls : u.shortcode = w.shortcode => u._id = w._id

\* two creates of one shortcode ran concurrently: one is stored, the
\* insert of the other was refused by the index
C21_Witness ==
  \E c \in Creators, e \in Creators :
    /\ creates[c].err = "E11000"
    /\ creates[e].res.status = 201
    /\ creates[e].body.shortcode = creates[c].body.shortcode
    /\ Cardinality({u \in urls : u.shortcode = creates[c].body.shortcode}) = 1

C23_BadShortcodeIs400 ==
  \A c \in Creators :
    LET cr == creates[c] IN
    (/\ cr.pc = "done"
     /\ cr.res.status # 503
     /\ isValidUrl(cr.body.url)
     /\ Truthy(cr.body.shortcode)
     /\ ~MatchesShortcodePattern(cr.body.shortcode))
    => /\ cr.res.status = 400
       /\ cr.res.code \in {"INVALID_SHORTCODE", "INVALID_SHORTCODE_LENGTH"}
       /\ cr.docId = 0

\* every stored shortcode matches ^[A-Za-z0-9]{3,20}$
StoredShortcodesMatch ==
  \A u \in urls : MatchesShortcodePattern(u.shortcode)

\* the keywords of the device and browser tests
MobileKeywords ==
  {"mobile", "android", "iphone", "ipod", "blackberry", "iemobile", "opera mini"}

TabletKeywords == {"tablet", "ipad"}

BrowserKeywords == <<"chrome", "firefox", "safari", "edge", "opera">>

BrowserNames == <<"Chrome", "Firefox", "Safari", "Edge", "Opera">>

\* the Click a redirect request stored
ClickOf(v) == CHOOSE k \in clicks : k._id = visits[v].clickId

\* C24: the device of every recorded Click is classified from the
\* User-Agent header of its request: type mobile when a mobile keyword
\* occurs, otherwise tablet when tablet or ipad occurs, otherwise desktop;
\* browser the first of chrome, firefox, safari, edge, opera that occurs,
\* else Unknown; isMobile exactly when the type is mobile.
C24_DeviceClassification ==
  \A v \in Visitors :
    (visits[v].clickId # 0 /\ \E k \in clicks : k._id = visits[v].clickId)
    => LET ua == visits[v].requestData.userAgent
           device == ClickOf(v).device
           mobile == \E w \in MobileKeywords : Includes(ua, w)
           tablet == \E w \in TabletKeywords : Includes(ua, w)
           found == {i \in 1..Len(BrowserKeywords) : Includes(ua, BrowserKeywords[i])}
       IN /\ mobile => device.type = "mobile"
          /\ (~mobile /\ tablet) => device.type = "tablet"
          /\ (~mobile /\ ~tablet) => device.type = "desktop"
          /\ found = {} => device.browser = "Unknown"
          /\ \A i \in found :
               (\A j \in found : i <= j) => device.browser = BrowserNames[i]
          /\ device.isMobile <=> device.type = "mobile"

\* a Click of an iPad whose header also says Mobile is stored as mobile, and
\* its browser is Safari
C24_Witness ==
  \E k \in clicks :
    /\ Includes(k.userAgent, "ipad")
    /\ Includes(k.userAgent, "mobile")
    /\ k.device.type = "mobile"
    /\ k.device.isMobile
    /\ k.device.browser = "Safari"

\* the loopback addresses
LoopbackIps == {LocalIp, Ipv6LocalIp, MappedLocalIp}

\* C25: the Click of a request from a loopback address (127.0.0.1, ::1,
\* ::ffff:127.0.0.1) carries the local sentinel location.
C25_LoopbackIsLocal ==
  \A k \in clicks :
    k.ip \in LoopbackIps => k.location = [country |-> "Local", city |-> "Development"]

\* a request whose address the resolver does not know is answered 302 and
\* its Click is stored with no location field set
UnresolvedStillRecorded ==
  \A v \in Visitors :
    (/\ visits[v].pc = "done"
     /\ visits[v].requestData.ip = PrivateIp
     /\ visits[v].res.status # 503
     /\ visits[v].err = "")
    => /\ visits[v].res.status \in {302, 404}
       /\ visits[v].res.status = 302 =>
            \E k \in clicks : k._id = visits[v].clickId /\ k.location = NoGeo

\* the groups are what the claim says for the Clicks of the shortcode in the
\* store
LocationStatsOf(result, store, shortcode) ==
  LET matched == {k \in store : k.shortcode = shortcode}
      pairs == {<<k.location.country, k.location.city>> : k \in matched}
      Of(pair) == {k \in matched : <<k.location.country, k.location.city>> = pair}
      Pair(g) == <<g._id.country, g._id.city>>
      shown == {Pair(result[i]) : i \in 1..Len(result)}
  IN /\ Len(result) = IF Cardinality(pairs) < 50 THEN Cardinality(pairs) ELSE 50
     /\ shown \subseteq pairs
     /\ Cardinality(shown) = Len(result)
     /\ \A i \in 1..Len(result) :
          /\ result[i].count = Cardinality(Of(Pair(result[i])))
          /\ \E k \in Of(Pair(result[i])) : k.timestamp = result[i].lastClick
          /\ \A k \in Of(Pair(result[i])) : k.timestamp <= result[i].lastClick
          /\ \A j \in i..Len(result) : result[i].count >= result[j].count
          /\ \A pair \in pairs \ shown : result[i].count >= Cardinality(Of(pair))
     /\ matched = {} => result = <<>>

\* C26: the step of a statistics request that reads the location statistics
\* gets one group for each (country, city) pair of the stored Clicks of the
\* shortcode, with the number of those Clicks and their latest timestamp,
\* largest count first, the 50 largest groups at most, and the empty list
\* when the shortcode has no Click.
C26_LocationStats ==
  [][\A r \in Readers :
       (reads[r].pc = "statsLocation" /\ reads'[r].pc = "statsDevice")
       => LocationStatsOf(reads'[r].stats.analytics.locationStats, clicks,
                          reads[r].shortcode)]_vars

\* a statistics request got 50 groups of different sizes while the Clicks
\* of its shortcode come from more than 50 places
C26_Witness ==
  \E r \in Readers :
    LET result == reads[r].stats.analytics.locationStats IN
    /\ reads[r].pc = "done"
    /\ Len(result) = 50
    /\ result[1].count > result[50].count
    /\ Cardinality({k.location : k \in {j \in clicks : j.shortcode = reads[r].shortcode}}) > 50

\* C27: a statistics response that lists a location or device group
\* reports totalClicks > 0, so the shares count / totalClicks the view
\* computes have a non-zero divisor.
C27_GroupsImplyClicks ==
  \A r \in Readers :
    (/\ reads[r].pc = "done"
     /\ reads[r].kind = "stats"
     /\ reads[r].res.status = 200
     /\ \/ Len(reads[r].response.analytics.locationStats) > 0
        \/ Len(reads[r].response.analytics.deviceStats) > 0)
    => reads[r].response.totalClicks > 0

\* no stored link is active past its expiry
NoneOverdue == \A u \in urls : now > u.expiresAt => ~u.isActive

\* C28: with the sweep scheduled fairly, once the store stays available
\* every stored link whose expiry has passed is eventually inactive, and
\* stays so.
C28_SweepEventuallyCleans == (<>[]storeUp) => <>[]NoneOverdue

\* the same for a server whose startup connection succeeded
SweepCleansWhenConnected == (dbConnected /\ <>[]storeUp) => <>[]NoneOverdue

\* C29: a step of a list or statistics request leaves every link and every
\* Click as it is; a stored Click is never changed, and it is removed only
\* by the deleteMany of a delete request for its shortcode.
C29_ReadsWriteNothing ==
  [][/\ (reads' # reads) => (urls' = urls /\ clicks' = clicks)
     /\ \A k \in clicks :
          \/ k \in clicks'
          \/ /\ \A j \in clicks' : j._id # k._id
             /\ \E d \in Deleters :
                  /\ deletes[d].pc = "deleteClicks"
                  /\ deletes'[d].pc = "deleteUrl"
                  /\ deletes[d].shortcode = k.shortcode]_vars

\* a statistics request has reported a Click, which a delete request has
\* removed since
C29_Witness ==
  /\ clicks = {}
  /\ \E d \in Deleters : deletes[d].res.status = 200
  /\ \E r \in Readers :
       /\ reads[r].res.status = 200
       /\ reads[r].kind = "stats"
       /\ Len(reads[r].response.clickDetails) >= 1

\* the shortcodes of a history list
ShortcodesOf(history) == {history[i].shortcode : i \in 1..Len(history)}

\* C30: once no submission is in flight, every short URL a form created
\* successfully is in the results history and in the list saved to
\* localStorage.
C30_NoCreationDropped ==
  (\A f \in FormIds : submits[f].pc # "awaiting")
  => \A f \in FormIds :
       (submits[f].pc = "done" /\ creates[f].res.status = 201)
       => /\ creates[f].res.shortcode \in ShortcodesOf(results)
          /\ creates[f].res.shortcode \in ShortcodesOf(localStorage)

====
